---- MODULE Spec2Model ----
(***************************************************************************)
(* Model of lazymc's configuration loader (src/config.rs): load() picks    *)
(* the configuration file or the LAZYMC_* environment variables, builds    *)
(* the Config tree, and Server::server_directory derives the backend's     *)
(* working directory from it.                                              *)
(*                                                                         *)
(* Text is a sequence of characters (one-character strings).  A default    *)
(* text of the source that holds no backslash may be written as a single   *)
(* chunk.  The control characters are the tokens LF, CR and TAB.           *)
(* Option<T> is a sequence of length at most one.                          *)
(* A line of the log is a text: the fixed words of the message as chunks,  *)
(* with the displayed path between them where the message has one.         *)
(* A u32 is the pair <<high 16 bits, low 16 bits>>, since the checker's    *)
(* integers are 32-bit signed; a u16 is a natural number.                  *)
(***************************************************************************)
EXTENDS Integers, Sequences, FiniteSets, TLC

VARIABLES env, cfg_windows, arg_path, fs, pc, config, log, sdir

vars == <<env, cfg_windows, arg_path, fs, pc, config, log, sdir>>

---------------------------------------------------------------------------
(* Option<T> *)

None == <<>>

Some(v) == <<v>>

IsSome(o) == Len(o) = 1

Unwrap(o) == o[1]

---------------------------------------------------------------------------
(* Characters *)

BS == "\\"

LF == "<LF>"

CR == "<CR>"

TAB == "<TAB>"

Digits == {"0", "1", "2", "3", "4", "5", "6", "7", "8", "9"}

DigitVal(c) ==
    CASE c = "0" -> 0 [] c = "1" -> 1 [] c = "2" -> 2 [] c = "3" -> 3
      [] c = "4" -> 4 [] c = "5" -> 5 [] c = "6" -> 6 [] c = "7" -> 7
      [] c = "8" -> 8 [] c = "9" -> 9

UpperLetters ==
    {"A", "B", "C", "D", "E", "F", "G", "H", "I", "J", "K", "L", "M",
     "N", "O", "P", "Q", "R", "S", "T", "U", "V", "W", "X", "Y", "Z"}

LowerLetters ==
    {"a", "b", "c", "d", "e", "f", "g", "h", "i", "j", "k", "l", "m",
     "n", "o", "p", "q", "r", "s", "t", "u", "v", "w", "x", "y", "z"}

(* char::to_lowercase on the characters of the model *)
char_to_lowercase(c) ==
    CASE c = "A" -> "a" [] c = "B" -> "b" [] c = "C" -> "c" [] c = "D" -> "d"
      [] c = "E" -> "e" [] c = "F" -> "f" [] c = "G" -> "g" [] c = "H" -> "h"
      [] c = "I" -> "i" [] c = "J" -> "j" [] c = "K" -> "k" [] c = "L" -> "l"
      [] c = "M" -> "m" [] c = "N" -> "n" [] c = "O" -> "o" [] c = "P" -> "p"
      [] c = "Q" -> "q" [] c = "R" -> "r" [] c = "S" -> "s" [] c = "T" -> "t"
      [] c = "U" -> "u" [] c = "V" -> "v" [] c = "W" -> "w" [] c = "X" -> "x"
      [] c = "Y" -> "y" [] c = "Z" -> "z" [] OTHER -> c

(* str::to_lowercase *)
to_lowercase(s) == [i \in 1..Len(s) |-> char_to_lowercase(s[i])]

(* char::is_whitespace on the characters of the model *)
is_whitespace(c) == c \in {" ", TAB, LF, CR}

RECURSIVE trim_start(_)
trim_start(s) ==
    IF s # <<>> /\ is_whitespace(s[1]) THEN trim_start(Tail(s)) ELSE s

RECURSIVE trim_end(_)
trim_end(s) ==
    IF s # <<>> /\ is_whitespace(s[Len(s)])
    THEN trim_end(SubSeq(s, 1, Len(s) - 1))
    ELSE s

(* str::trim *)
trim(s) == trim_end(trim_start(s))

(* str::split on one separator character: always at least one piece *)
RECURSIVE split(_, _)
split(s, sep) ==
    IF \E i \in 1..Len(s) : s[i] = sep
    THEN LET i == CHOOSE j \in 1..Len(s) :
                      s[j] = sep /\ \A k \in 1..(j - 1) : s[k] # sep
         IN  <<SubSeq(s, 1, i - 1)>> \o split(SubSeq(s, i + 1, Len(s)), sep)
    ELSE <<s>>

(* str::replace of the two-character pattern c1 c2 by the character to:    *)
(* the non-overlapping matches, found from the left                        *)
RECURSIVE replace(_, _, _, _)
replace(s, c1, c2, to) ==
    IF s = <<>> THEN <<>>
    ELSE IF Len(s) >= 2 /\ s[1] = c1 /\ s[2] = c2
         THEN <<to>> \o replace(SubSeq(s, 3, Len(s)), c1, c2, to)
         ELSE <<s[1]>> \o replace(Tail(s), c1, c2, to)

(* process_escape_sequences: four replacements, one after the other *)
process_escape_sequences(input) ==
    replace(replace(replace(replace(input, BS, "n", LF), BS, "r", CR),
                    BS, "t", TAB),
            BS, BS, BS)

---------------------------------------------------------------------------
(* Unsigned integers *)

Half == 65536

U32(n) == <<n \div Half, n % Half>>

(* <u32 as FromStr>::from_str: an optional '+', then at least one decimal  *)
(* digit and nothing else; None on overflow.  acc is <<high, low>>.        *)
RECURSIVE parse_digits_u32(_, _)
parse_digits_u32(s, acc) ==
    IF s = <<>> THEN Some(acc)
    ELSE IF s[1] \notin Digits THEN None
    ELSE LET lo == acc[2] * 10 + DigitVal(s[1])
             hi == acc[1] * 10 + (lo \div Half)
         IN  IF hi >= Half THEN None
             ELSE parse_digits_u32(Tail(s), <<hi, lo % Half>>)

parse_u32(s) ==
    LET digits == IF s # <<>> /\ s[1] = "+" THEN Tail(s) ELSE s
    IN  IF digits = <<>> THEN None ELSE parse_digits_u32(digits, <<0, 0>>)

(* <u16 as FromStr>::from_str *)
parse_u16(s) ==
    LET r == parse_u32(s)
    IN  IF IsSome(r) /\ Unwrap(r)[1] = 0 THEN Some(Unwrap(r)[2]) ELSE None

---------------------------------------------------------------------------
(* Socket addresses.  The text of an address is <<host, ":", d1, .., dk>>: *)
(* the host is one chunk, the port is written in digit characters.  A      *)
(* SocketAddr is [ip, port].                                               *)

Ipv4Literals == {"127.0.0.1", "0.0.0.0", "10.0.0.5", "10.0.0.6"}

Ipv6Literals == {"[::1]"}

(* the address a literal host denotes *)
ip_of(host) == IF host = "[::1]" THEN "::1" ELSE host

(* the port of an address text: 1 to 5 decimal digits, at most 65535 *)
parse_port(s) ==
    IF s # <<>> /\ \A i \in 1..Len(s) : s[i] \in Digits
    THEN parse_u16(s)
    ELSE None

(* <SocketAddr as FromStr>::from_str: a literal IPv4 address or a          *)
(* bracketed IPv6 address, a colon and a port; host names are not looked   *)
(* up                                                                      *)
parse_socket_addr(s) ==
    IF Len(s) >= 3 /\ s[1] \in (Ipv4Literals \cup Ipv6Literals) /\ s[2] = ":"
       /\ IsSome(parse_port(SubSeq(s, 3, Len(s))))
    THEN Some([ip |-> ip_of(s[1]), port |-> Unwrap(parse_port(SubSeq(s, 3, Len(s))))])
    ELSE None

(* the system's host name lookup: the addresses in the order returned,     *)
(* empty when the name does not resolve                                    *)
lookup_host(host) ==
    CASE host = "mc.example" -> <<"10.0.0.5", "10.0.0.6">>
      [] host = "localhost" -> <<"127.0.0.1">>
      [] OTHER -> <<>>

(* util::serde::to_socket_addrs on a string: a literal address is taken    *)
(* as it is, otherwise the host is looked up and the first address         *)
(* returned is used with the port; None when nothing resolves              *)
to_socket_addrs(s) ==
    IF IsSome(parse_socket_addr(s)) THEN parse_socket_addr(s)
    ELSE IF Len(s) >= 3 /\ s[2] = ":"
            /\ IsSome(parse_port(SubSeq(s, 3, Len(s))))
            /\ lookup_host(s[1]) # <<>>
         THEN Some([ip |-> lookup_host(s[1])[1],
                    port |-> Unwrap(parse_port(SubSeq(s, 3, Len(s))))])
         ELSE None

---------------------------------------------------------------------------
(* The process environment.  env[key] is [set, unicode, s]: whether the   *)
(* variable is set, whether its value is valid Unicode, and its text.      *)

StringKeys ==
    {"LAZYMC_PUBLIC_VERSION", "LAZYMC_SERVER_DIRECTORY",
     "LAZYMC_MOTD_SLEEPING", "LAZYMC_MOTD_STARTING", "LAZYMC_MOTD_STOPPING",
     "LAZYMC_JOIN_KICK_STARTING", "LAZYMC_JOIN_KICK_STOPPING",
     "LAZYMC_JOIN_LOBBY_MESSAGE", "LAZYMC_JOIN_LOBBY_READY_SOUND",
     "LAZYMC_LOCKOUT_MESSAGE", "LAZYMC_RCON_PASSWORD",
     "LAZYMC_CONFIG_VERSION"}

AddrKeys ==
    {"LAZYMC_PUBLIC_ADDRESS", "LAZYMC_SERVER_ADDRESS",
     "LAZYMC_JOIN_FORWARD_ADDRESS"}

U32Keys ==
    {"LAZYMC_PUBLIC_PROTOCOL", "LAZYMC_SERVER_START_TIMEOUT",
     "LAZYMC_SERVER_STOP_TIMEOUT", "LAZYMC_TIME_SLEEP_AFTER",
     "LAZYMC_TIME_MIN_ONLINE_TIME", "LAZYMC_JOIN_HOLD_TIMEOUT",
     "LAZYMC_JOIN_LOBBY_TIMEOUT"}

U16Keys == {"LAZYMC_RCON_PORT"}

BoolKeys ==
    {"LAZYMC_SERVER_FREEZE_PROCESS", "LAZYMC_SERVER_WAKE_ON_START",
     "LAZYMC_SERVER_WAKE_ON_CRASH", "LAZYMC_SERVER_PROBE_ON_START",
     "LAZYMC_SERVER_FORGE", "LAZYMC_SERVER_WAKE_WHITELIST",
     "LAZYMC_SERVER_BLOCK_BANNED_IPS", "LAZYMC_SERVER_DROP_BANNED_IPS",
     "LAZYMC_SERVER_SEND_PROXY_V2", "LAZYMC_MOTD_FROM_SERVER",
     "LAZYMC_JOIN_FORWARD_SEND_PROXY_V2", "LAZYMC_LOCKOUT_ENABLED",
     "LAZYMC_RCON_ENABLED", "LAZYMC_RCON_RANDOMIZE_PASSWORD",
     "LAZYMC_RCON_SEND_PROXY_V2",
     "LAZYMC_ADVANCED_REWRITE_SERVER_PROPERTIES"}

VecKeys == {"LAZYMC_JOIN_METHODS"}

CommandKey == "LAZYMC_SERVER_COMMAND"

EnvKeys ==
    {CommandKey} \cup StringKeys \cup AddrKeys \cup U32Keys \cup U16Keys
        \cup BoolKeys \cup VecKeys

Unset == [set |-> FALSE, unicode |-> TRUE, s |-> <<>>]

SetTo(text) == [set |-> TRUE, unicode |-> TRUE, s |-> text]

NotUnicode == [set |-> TRUE, unicode |-> FALSE, s |-> <<>>]

(* env_var, had it taken an empty value for a missing one *)
env_var_nonempty(key) ==
    IF env[key].set /\ env[key].unicode /\ env[key].s # <<>>
    THEN Some(env[key].s) ELSE None

(* env::var(key).ok(): the value when the variable is set and is valid     *)
(* Unicode                                                                 *)
env_var(key) ==
    IF env[key].set /\ env[key].unicode THEN Some(env[key].s) ELSE None

(* get_env_string: the variable or else the default, escape-decoded *)
get_env_string(key, default) ==
    LET value == IF IsSome(env_var(key)) THEN env_var(key) ELSE default
    IN  IF IsSome(value) THEN Some(process_escape_sequences(Unwrap(value)))
        ELSE None

(* get_env_socket_addr: the variable parsed as a socket address, else the  *)
(* default parsed                                                          *)
get_env_socket_addr(key, default) ==
    IF IsSome(env_var(key)) /\ IsSome(parse_socket_addr(Unwrap(env_var(key))))
    THEN Unwrap(parse_socket_addr(Unwrap(env_var(key))))
    ELSE Unwrap(parse_socket_addr(default))

get_env_u32(key, default) ==
    IF IsSome(env_var(key)) /\ IsSome(parse_u32(Unwrap(env_var(key))))
    THEN Unwrap(parse_u32(Unwrap(env_var(key))))
    ELSE default

get_env_u16(key, default) ==
    IF IsSome(env_var(key)) /\ IsSome(parse_u16(Unwrap(env_var(key))))
    THEN Unwrap(parse_u16(Unwrap(env_var(key))))
    ELSE default

T_true == <<"t", "r", "u", "e">>

T_false == <<"f", "a", "l", "s", "e">>

T_yes == <<"y", "e", "s">>

T_no == <<"n", "o">>

T_on == <<"o", "n">>

T_off == <<"o", "f", "f">>

(* get_env_bool, had it taken an unknown word for false *)
get_env_bool_unknown_false(key, default) ==
    IF IsSome(env_var(key))
    THEN to_lowercase(Unwrap(env_var(key))) \in {T_true, <<"1">>, T_yes, T_on}
    ELSE default

(* get_env_bool, had it compared without to_lowercase *)
get_env_bool_case_sensitive(key, default) ==
    IF IsSome(env_var(key))
    THEN LET s == Unwrap(env_var(key))
         IN  IF s \in {T_true, <<"1">>, T_yes, T_on} THEN TRUE
             ELSE IF s \in {T_false, <<"0">>, T_no, T_off} THEN FALSE
             ELSE default
    ELSE default

get_env_bool(key, default) ==
    IF IsSome(env_var(key))
    THEN LET s == to_lowercase(Unwrap(env_var(key)))
         IN  IF s \in {T_true, <<"1">>, T_yes, T_on} THEN TRUE
             ELSE IF s \in {T_false, <<"0">>, T_no, T_off} THEN FALSE
             ELSE default
    ELSE default

(* get_env_vec_string without the trim of each element *)
get_env_vec_string_no_trim(key, default) ==
    IF IsSome(env_var(key)) THEN split(Unwrap(env_var(key)), ",") ELSE default

get_env_vec_string(key, default) ==
    IF IsSome(env_var(key))
    THEN LET parts == split(Unwrap(env_var(key)), ",")
         IN  [i \in 1..Len(parts) |-> trim(parts[i])]
    ELSE default

---------------------------------------------------------------------------
(* Default values *)

T_dot == <<".">>

PROTO_DEFAULT_VERSION == <<"{PROTO_DEFAULT_VERSION}">>

PROTO_DEFAULT_PROTOCOL == 765

PublicAddressDefault == <<"0.0.0.0", ":", "2", "5", "5", "6", "5">>

ServerAddressDefault == <<"127.0.0.1", ":", "2", "5", "5", "6", "6">>

ForwardAddressDefault == <<"127.0.0.1", ":", "2", "5", "5", "6", "5">>

MotdSleepingDefault == <<"(skull) Server is sleeping", LF, "(2)(smile) Join to start it up">>

MotdStartingDefault == <<"(2)(smile) Server is starting...", LF, "(7)(hourglass) Please wait...">>

MotdStoppingDefault == <<"(skull) Server going to sleep...", LF, "(hourglass) Please wait...">>

KickStartingDefault ==
    <<"Server is starting... (c)(heart)(r)", LF, LF, "This may take some time.",
      LF, LF, "Please try to reconnect in a minute.">>

KickStoppingDefault ==
    <<"Server is going to sleep... (7)(skull)(r)", LF, LF,
      "Please try to reconnect in a minute to wake it again.">>

LobbyMessageDefault == <<"(2)Server is starting", LF, "(7)(hourglass) Please wait...">>

ReadySoundDefault == <<"block.note_block.chime">>

LockoutMessageDefault ==
    <<"Server is closed (7)(skull)(r)", LF, LF, "Please come back another time.">>

option_pathbuf_dot == Some(T_dot)

server_address_default == Unwrap(parse_socket_addr(ServerAddressDefault))

u32_300 == U32(300)

u32_150 == U32(150)

bool_true == TRUE

---------------------------------------------------------------------------
(* Join methods *)

T_kick == <<"k", "i", "c", "k">>

T_hold == <<"h", "o", "l", "d">>

T_forward == <<"f", "o", "r", "w", "a", "r", "d">>

T_lobby == <<"l", "o", "b", "b", "y">>

Methods == {"Kick", "Hold", "Forward", "Lobby"}

(* <Method as FromStr>::from_str *)
Method_from_str(s) ==
    LET l == to_lowercase(s)
    IN  CASE l = T_kick -> Some("Kick")
          [] l = T_hold -> Some("Hold")
          [] l = T_forward -> Some("Forward")
          [] l = T_lobby -> Some("Lobby")
          [] OTHER -> None

(* iter.filter_map(|s| s.parse().ok()).collect() *)
RECURSIVE filter_map_parse(_)
filter_map_parse(strs) ==
    IF strs = <<>> THEN <<>>
    ELSE (IF IsSome(Method_from_str(strs[1]))
          THEN <<Unwrap(Method_from_str(strs[1]))>> ELSE <<>>)
         \o filter_map_parse(Tail(strs))

---------------------------------------------------------------------------
(* The sections, built from the environment (from_env) and their Default  *)

Public_from_env ==
    [address |-> get_env_socket_addr("LAZYMC_PUBLIC_ADDRESS", PublicAddressDefault),
     version |-> LET v == get_env_string("LAZYMC_PUBLIC_VERSION", Some(PROTO_DEFAULT_VERSION))
                 IN  IF IsSome(v) THEN Unwrap(v) ELSE PROTO_DEFAULT_VERSION,
     protocol |-> get_env_u32("LAZYMC_PUBLIC_PROTOCOL", U32(PROTO_DEFAULT_PROTOCOL))]

Public_default ==
    [address |-> Unwrap(parse_socket_addr(PublicAddressDefault)),
     version |-> PROTO_DEFAULT_VERSION,
     protocol |-> U32(PROTO_DEFAULT_PROTOCOL)]

Server_from_env(command) ==
    [directory |-> get_env_string("LAZYMC_SERVER_DIRECTORY", Some(T_dot)),
     command |-> command,
     address |-> get_env_socket_addr("LAZYMC_SERVER_ADDRESS", ServerAddressDefault),
     freeze_process |-> get_env_bool("LAZYMC_SERVER_FREEZE_PROCESS", TRUE),
     wake_on_start |-> get_env_bool("LAZYMC_SERVER_WAKE_ON_START", FALSE),
     wake_on_crash |-> get_env_bool("LAZYMC_SERVER_WAKE_ON_CRASH", FALSE),
     probe_on_start |-> get_env_bool("LAZYMC_SERVER_PROBE_ON_START", FALSE),
     forge |-> get_env_bool("LAZYMC_SERVER_FORGE", FALSE),
     start_timeout |-> get_env_u32("LAZYMC_SERVER_START_TIMEOUT", U32(300)),
     stop_timeout |-> get_env_u32("LAZYMC_SERVER_STOP_TIMEOUT", U32(150)),
     wake_whitelist |-> get_env_bool("LAZYMC_SERVER_WAKE_WHITELIST", TRUE),
     block_banned_ips |-> get_env_bool("LAZYMC_SERVER_BLOCK_BANNED_IPS", TRUE),
     drop_banned_ips |-> get_env_bool("LAZYMC_SERVER_DROP_BANNED_IPS", FALSE),
     send_proxy_v2 |-> get_env_bool("LAZYMC_SERVER_SEND_PROXY_V2", FALSE)]

Time_from_env ==
    [sleep_after |-> get_env_u32("LAZYMC_TIME_SLEEP_AFTER", U32(60)),
     min_online_time |-> get_env_u32("LAZYMC_TIME_MIN_ONLINE_TIME", U32(60))]

Time_default == [sleep_after |-> U32(60), min_online_time |-> U32(60)]

Motd_from_env ==
    [sleeping |-> Unwrap(get_env_string("LAZYMC_MOTD_SLEEPING", Some(MotdSleepingDefault))),
     starting |-> Unwrap(get_env_string("LAZYMC_MOTD_STARTING", Some(MotdStartingDefault))),
     stopping |-> Unwrap(get_env_string("LAZYMC_MOTD_STOPPING", Some(MotdStoppingDefault))),
     from_server |-> get_env_bool("LAZYMC_MOTD_FROM_SERVER", FALSE)]

Motd_default ==
    [sleeping |-> MotdSleepingDefault,
     starting |-> MotdStartingDefault,
     stopping |-> MotdStoppingDefault,
     from_server |-> FALSE]

JoinKick_from_env ==
    [starting |-> Unwrap(get_env_string("LAZYMC_JOIN_KICK_STARTING", Some(KickStartingDefault))),
     stopping |-> Unwrap(get_env_string("LAZYMC_JOIN_KICK_STOPPING", Some(KickStoppingDefault)))]

JoinKick_default == [starting |-> KickStartingDefault, stopping |-> KickStoppingDefault]

JoinHold_from_env == [timeout |-> get_env_u32("LAZYMC_JOIN_HOLD_TIMEOUT", U32(25))]

JoinHold_default == [timeout |-> U32(25)]

JoinForward_from_env ==
    [address |-> get_env_socket_addr("LAZYMC_JOIN_FORWARD_ADDRESS", ForwardAddressDefault),
     send_proxy_v2 |-> get_env_bool("LAZYMC_JOIN_FORWARD_SEND_PROXY_V2", FALSE)]

JoinForward_default ==
    [address |-> Unwrap(parse_socket_addr(ForwardAddressDefault)),
     send_proxy_v2 |-> FALSE]

JoinLobby_from_env ==
    [timeout |-> get_env_u32("LAZYMC_JOIN_LOBBY_TIMEOUT", U32(10 * 60)),
     message |-> Unwrap(get_env_string("LAZYMC_JOIN_LOBBY_MESSAGE", Some(LobbyMessageDefault))),
     ready_sound |-> get_env_string("LAZYMC_JOIN_LOBBY_READY_SOUND", Some(ReadySoundDefault))]

JoinLobby_default ==
    [timeout |-> U32(10 * 60),
     message |-> LobbyMessageDefault,
     ready_sound |-> Some(ReadySoundDefault)]

Join_from_env ==
    LET methods_str == get_env_vec_string("LAZYMC_JOIN_METHODS", <<T_hold, T_kick>>)
    IN  [methods |-> filter_map_parse(methods_str),
         kick |-> JoinKick_from_env,
         hold |-> JoinHold_from_env,
         forward |-> JoinForward_from_env,
         lobby |-> JoinLobby_from_env]

Join_default ==
    [methods |-> <<"Hold", "Kick">>,
     kick |-> JoinKick_default,
     hold |-> JoinHold_default,
     forward |-> JoinForward_default,
     lobby |-> JoinLobby_default]

Lockout_from_env ==
    [enabled |-> get_env_bool("LAZYMC_LOCKOUT_ENABLED", FALSE),
     message |-> Unwrap(get_env_string("LAZYMC_LOCKOUT_MESSAGE", Some(LockoutMessageDefault)))]

Lockout_default == [enabled |-> FALSE, message |-> LockoutMessageDefault]

Rcon_from_env ==
    [enabled |-> get_env_bool("LAZYMC_RCON_ENABLED", cfg_windows),
     port |-> get_env_u16("LAZYMC_RCON_PORT", 25575),
     password |-> Unwrap(get_env_string("LAZYMC_RCON_PASSWORD", Some(<<>>))),
     randomize_password |-> get_env_bool("LAZYMC_RCON_RANDOMIZE_PASSWORD", TRUE),
     send_proxy_v2 |-> get_env_bool("LAZYMC_RCON_SEND_PROXY_V2", FALSE)]

Rcon_default ==
    [enabled |-> cfg_windows,
     port |-> 25575,
     password |-> <<>>,
     randomize_password |-> TRUE,
     send_proxy_v2 |-> FALSE]

Advanced_from_env ==
    [rewrite_server_properties |->
        get_env_bool("LAZYMC_ADVANCED_REWRITE_SERVER_PROPERTIES", TRUE)]

Advanced_default == [rewrite_server_properties |-> TRUE]

ConfigConfig_from_env == [version |-> get_env_string("LAZYMC_CONFIG_VERSION", None)]

ConfigConfig_default == [version |-> None]

---------------------------------------------------------------------------
(* The configuration file.  A document is [syntax_ok, tables, fields]:     *)
(* whether it is well-formed TOML, the tables it holds, and its key/value  *)
(* pairs by dotted name.  A value is [t |-> "string", s], [t |->           *)
(* "integer", lit], [t |-> "boolean", b] or [t |-> "array", items].        *)

TomlString(text) == [t |-> "string", s |-> text]

TomlInteger(lit) == [t |-> "integer", lit |-> lit]

TomlBoolean(b) == [t |-> "boolean", b |-> b]

TomlArray(items) == [t |-> "array", items |-> items]

de_ok(v) == [err |-> FALSE, v |-> v]

de_err == [err |-> TRUE, v |-> <<>>]

(* a TOML integer as a u32: negative or above 2^32 - 1 is an error *)
toml_u32(lit) ==
    IF lit # <<>> /\ lit[1] = "-"
    THEN IF Len(lit) >= 2 /\ \A i \in 2..Len(lit) : lit[i] = "0"
         THEN Some(U32(0)) ELSE None
    ELSE parse_u32(lit)

de_string(x) == IF x.t = "string" THEN de_ok(x.s) ELSE de_err

de_option_string(x) == IF x.t = "string" THEN de_ok(Some(x.s)) ELSE de_err

de_bool(x) == IF x.t = "boolean" THEN de_ok(x.b) ELSE de_err

de_u32(x) ==
    IF x.t = "integer" /\ IsSome(toml_u32(x.lit))
    THEN de_ok(Unwrap(toml_u32(x.lit))) ELSE de_err

de_u16(x) ==
    IF x.t = "integer" /\ IsSome(toml_u32(x.lit)) /\ Unwrap(toml_u32(x.lit))[1] = 0
    THEN de_ok(Unwrap(toml_u32(x.lit))[2]) ELSE de_err

(* #[serde(deserialize_with = "to_socket_addrs")] *)
de_socket_addr(x) ==
    IF x.t = "string" /\ IsSome(to_socket_addrs(x.s))
    THEN de_ok(Unwrap(to_socket_addrs(x.s))) ELSE de_err

(* Method with #[serde(rename_all = "lowercase")]: the exact variant name *)
de_method(text) ==
    CASE text = T_kick -> Some("Kick")
      [] text = T_hold -> Some("Hold")
      [] text = T_forward -> Some("Forward")
      [] text = T_lobby -> Some("Lobby")
      [] OTHER -> None

de_methods(x) ==
    IF x.t = "array" /\ \A i \in 1..Len(x.items) : IsSome(de_method(x.items[i]))
    THEN de_ok([i \in 1..Len(x.items) |-> Unwrap(de_method(x.items[i]))])
    ELSE de_err

(* a struct from the results of its fields: an error when any field's is   *)
(* one, else the record of the values                                      *)
de_struct(r) ==
    IF \E k \in DOMAIN r : r[k].err THEN de_err
    ELSE de_ok([k \in DOMAIN r |-> r[k].v])

(* one field of a table: its value deserialized, or the default when the  *)
(* document does not give it                                               *)
de_field(doc, name, De(_), default) ==
    IF name \in DOMAIN doc.fields THEN De(doc.fields[name]) ELSE de_ok(default)

Public_deserialize(doc) ==
    IF "public" \notin doc.tables THEN de_ok(Public_default)
    ELSE de_struct(
        [address |-> de_field(doc, "public.address", de_socket_addr, Public_default.address),
         version |-> de_field(doc, "public.version", de_string, Public_default.version),
         protocol |-> de_field(doc, "public.protocol", de_u32, Public_default.protocol)])

(* the required field command: an error when the document lacks it *)
de_required(doc, name, De(_)) ==
    IF name \in DOMAIN doc.fields THEN De(doc.fields[name]) ELSE de_err

Server_deserialize(doc) ==
    IF "server" \notin doc.tables THEN de_err
    ELSE de_struct(
        [directory |-> de_field(doc, "server.directory", de_option_string, option_pathbuf_dot),
         command |-> de_required(doc, "server.command", de_string),
         address |-> de_field(doc, "server.address", de_socket_addr, server_address_default),
         freeze_process |-> de_field(doc, "server.freeze_process", de_bool, bool_true),
         wake_on_start |-> de_field(doc, "server.wake_on_start", de_bool, FALSE),
         wake_on_crash |-> de_field(doc, "server.wake_on_crash", de_bool, FALSE),
         probe_on_start |-> de_field(doc, "server.probe_on_start", de_bool, FALSE),
         forge |-> de_field(doc, "server.forge", de_bool, FALSE),
         start_timeout |-> de_field(doc, "server.start_timeout", de_u32, u32_300),
         stop_timeout |-> de_field(doc, "server.stop_timeout", de_u32, u32_150),
         wake_whitelist |-> de_field(doc, "server.wake_whitelist", de_bool, bool_true),
         block_banned_ips |-> de_field(doc, "server.block_banned_ips", de_bool, bool_true),
         drop_banned_ips |-> de_field(doc, "server.drop_banned_ips", de_bool, FALSE),
         send_proxy_v2 |-> de_field(doc, "server.send_proxy_v2", de_bool, FALSE)])

(* min_online_time with #[serde(default, alias = "minimum_online_time")]:  *)
(* either name, both at once is a duplicate field, and its own default is  *)
(* u32::default()                                                          *)
de_min_online_time(doc) ==
    IF "time.min_online_time" \in DOMAIN doc.fields
    THEN IF "time.minimum_online_time" \in DOMAIN doc.fields THEN de_err
         ELSE de_u32(doc.fields["time.min_online_time"])
    ELSE de_field(doc, "time.minimum_online_time", de_u32, U32(0))

(* Time: #[serde(default)] on the struct *)
Time_deserialize(doc) ==
    IF "time" \notin doc.tables THEN de_ok(Time_default)
    ELSE de_struct(
        [sleep_after |-> de_field(doc, "time.sleep_after", de_u32, Time_default.sleep_after),
         min_online_time |-> de_min_online_time(doc)])

Motd_deserialize(doc) ==
    IF "motd" \notin doc.tables THEN de_ok(Motd_default)
    ELSE de_struct(
        [sleeping |-> de_field(doc, "motd.sleeping", de_string, Motd_default.sleeping),
         starting |-> de_field(doc, "motd.starting", de_string, Motd_default.starting),
         stopping |-> de_field(doc, "motd.stopping", de_string, Motd_default.stopping),
         from_server |-> de_field(doc, "motd.from_server", de_bool, Motd_default.from_server)])

JoinKick_deserialize(doc) ==
    IF "join.kick" \notin doc.tables THEN de_ok(JoinKick_default)
    ELSE de_struct(
        [starting |-> de_field(doc, "join.kick.starting", de_string, JoinKick_default.starting),
         stopping |-> de_field(doc, "join.kick.stopping", de_string, JoinKick_default.stopping)])

JoinHold_deserialize(doc) ==
    IF "join.hold" \notin doc.tables THEN de_ok(JoinHold_default)
    ELSE de_struct(
        [timeout |-> de_field(doc, "join.hold.timeout", de_u32, JoinHold_default.timeout)])

JoinForward_deserialize(doc) ==
    IF "join.forward" \notin doc.tables THEN de_ok(JoinForward_default)
    ELSE de_struct(
        [address |-> de_field(doc, "join.forward.address", de_socket_addr,
                              JoinForward_default.address),
         send_proxy_v2 |-> de_field(doc, "join.forward.send_proxy_v2", de_bool, FALSE)])

JoinLobby_deserialize(doc) ==
    IF "join.lobby" \notin doc.tables THEN de_ok(JoinLobby_default)
    ELSE de_struct(
        [timeout |-> de_field(doc, "join.lobby.timeout", de_u32, JoinLobby_default.timeout),
         message |-> de_field(doc, "join.lobby.message", de_string, JoinLobby_default.message),
         ready_sound |-> de_field(doc, "join.lobby.ready_sound", de_option_string,
                                  JoinLobby_default.ready_sound)])

Join_deserialize(doc) ==
    IF "join" \notin doc.tables THEN de_ok(Join_default)
    ELSE de_struct(
        [methods |-> de_field(doc, "join.methods", de_methods, Join_default.methods),
         kick |-> JoinKick_deserialize(doc),
         hold |-> JoinHold_deserialize(doc),
         forward |-> JoinForward_deserialize(doc),
         lobby |-> JoinLobby_deserialize(doc)])

Lockout_deserialize(doc) ==
    IF "lockout" \notin doc.tables THEN de_ok(Lockout_default)
    ELSE de_struct(
        [enabled |-> de_field(doc, "lockout.enabled", de_bool, Lockout_default.enabled),
         message |-> de_field(doc, "lockout.message", de_string, Lockout_default.message)])

Rcon_deserialize(doc) ==
    IF "rcon" \notin doc.tables THEN de_ok(Rcon_default)
    ELSE de_struct(
        [enabled |-> de_field(doc, "rcon.enabled", de_bool, Rcon_default.enabled),
         port |-> de_field(doc, "rcon.port", de_u16, Rcon_default.port),
         password |-> de_field(doc, "rcon.password", de_string, Rcon_default.password),
         randomize_password |-> de_field(doc, "rcon.randomize_password", de_bool,
                                         Rcon_default.randomize_password),
         send_proxy_v2 |-> de_field(doc, "rcon.send_proxy_v2", de_bool,
                                    Rcon_default.send_proxy_v2)])

Advanced_deserialize(doc) ==
    IF "advanced" \notin doc.tables THEN de_ok(Advanced_default)
    ELSE de_struct(
        [rewrite_server_properties |->
            de_field(doc, "advanced.rewrite_server_properties", de_bool,
                     Advanced_default.rewrite_server_properties)])

ConfigConfig_deserialize(doc) ==
    IF "config" \notin doc.tables THEN de_ok(ConfigConfig_default)
    ELSE de_struct(
        [version |-> de_field(doc, "config.version", de_option_string,
                              ConfigConfig_default.version)])

(* toml::from_str::<Config>: path is #[serde(skip)], server is required,   *)
(* every other section is #[serde(default)]                                *)
Config_deserialize(doc) ==
    IF ~doc.syntax_ok THEN de_err
    ELSE de_struct(
        [path |-> de_ok(None),
         public |-> Public_deserialize(doc),
         server |-> Server_deserialize(doc),
         time |-> Time_deserialize(doc),
         motd |-> Motd_deserialize(doc),
         join |-> Join_deserialize(doc),
         lockout |-> Lockout_deserialize(doc),
         rcon |-> Rcon_deserialize(doc),
         advanced |-> Advanced_deserialize(doc),
         config |-> ConfigConfig_deserialize(doc)])

---------------------------------------------------------------------------
(* version_compare::compare_to(version, CONFIG_VERSION, Cmp::Ge), for      *)
(* versions whose parts are numbers or words                               *)

CONFIG_VERSION == <<"0", ".", "2", ".", "8">>

is_alphanumeric(c) == c \in (Digits \cup LowerLetters \cup UpperLetters)

(* the maximal runs of alphanumeric characters, in order *)
RECURSIVE version_split(_, _)
version_split(s, cur) ==
    IF s = <<>> THEN (IF cur = <<>> THEN <<>> ELSE <<cur>>)
    ELSE IF is_alphanumeric(s[1]) THEN version_split(Tail(s), Append(cur, s[1]))
    ELSE (IF cur = <<>> THEN <<>> ELSE <<cur>>) \o version_split(Tail(s), <<>>)

(* part.parse::<i32>() of a run of alphanumeric characters *)
parse_i32(part) ==
    LET r == parse_u32(part)
    IN  IF part[1] # "+" /\ IsSome(r) /\ Unwrap(r)[1] < 32768
        THEN Some(Unwrap(r)[1] * Half + Unwrap(r)[2])
        ELSE None

(* Version::from: the parts, each a number or a word; None when there are  *)
(* parts and none of them is a number                                      *)
Version_from(s) ==
    LET runs == version_split(s, <<>>)
        parts == [i \in 1..Len(runs) |->
                    IF IsSome(parse_i32(runs[i]))
                    THEN [number |-> TRUE, n |-> Unwrap(parse_i32(runs[i]))]
                    ELSE [number |-> FALSE, n |-> 0]]
    IN  IF parts # <<>> /\ \A i \in 1..Len(parts) : ~parts[i].number
        THEN None ELSE Some(parts)

(* Version::compare on numeric parts: part by part, a missing part counts  *)
(* as zero                                                                 *)
RECURSIVE compare_parts(_, _)
compare_parts(a, b) ==
    CASE a = <<>> /\ b = <<>> -> "Eq"
      [] a = <<>> /\ b # <<>> /\ b[1].number ->
            IF b[1].n = 0 THEN compare_parts(a, Tail(b)) ELSE "Lt"
      [] a # <<>> /\ b = <<>> /\ a[1].number ->
            IF a[1].n = 0 THEN compare_parts(Tail(a), b) ELSE "Gt"
      [] a # <<>> /\ b # <<>> /\ a[1].number /\ b[1].number ->
            IF a[1].n < b[1].n THEN "Lt"
            ELSE IF a[1].n > b[1].n THEN "Gt"
            ELSE compare_parts(Tail(a), Tail(b))

(* the rank of a character in a comparison of texts *)
char_rank(c) == IF c \in Digits THEN DigitVal(c) + 1 ELSE 0

(* whether text a sorts before text b *)
RECURSIVE text_less(_, _)
text_less(a, b) ==
    IF b = <<>> THEN FALSE
    ELSE IF a = <<>> THEN TRUE
    ELSE IF char_rank(a[1]) # char_rank(b[1]) THEN char_rank(a[1]) < char_rank(b[1])
    ELSE text_less(Tail(a), Tail(b))

(* compare_to_ge, had it compared the texts and not the numbers *)
compare_to_ge_lexical(a, b) ==
    IF ~IsSome(Version_from(a)) \/ ~IsSome(Version_from(b)) THEN "Err"
    ELSE IF text_less(a, b) THEN "Ok(false)" ELSE "Ok(true)"

(* Cmp::Ge of two parsed versions, when both parsed *)
ge_of(va, vb) ==
    IF ~IsSome(va) \/ ~IsSome(vb) THEN "Err"
    ELSE IF compare_parts(Unwrap(va), Unwrap(vb)) = "Lt" THEN "Ok(false)"
    ELSE "Ok(true)"

(* compare_to(a, b, Cmp::Ge): "Err", or "Ok(true)" / "Ok(false)" *)
compare_to_ge(a, b) == ge_of(Version_from(a), Version_from(b))

---------------------------------------------------------------------------
(* Paths are texts whose separator is "/" *)

is_absolute(p) == p # <<>> /\ p[1] = "/"

(* Path::join *)
path_join(base, p) ==
    IF is_absolute(p) THEN p
    ELSE IF base = <<>> \/ base[Len(base)] = "/" THEN base \o p
    ELSE base \o <<"/">> \o p

(* Path::parent of a path without trailing separator *)
path_parent(p) ==
    IF p = <<>> \/ p = <<"/">> THEN None
    ELSE IF \A i \in 1..Len(p) : p[i] # "/" THEN Some(<<>>)
    ELSE LET i == CHOOSE j \in 1..Len(p) :
                      p[j] = "/" /\ \A k \in (j + 1)..Len(p) : p[k] # "/"
         IN  IF i = 1 THEN Some(<<"/">>) ELSE Some(SubSeq(p, 1, i - 1))

---------------------------------------------------------------------------
(* Loading *)

WarnUnknown == <<"Config version unknown, it may be outdated">>

WarnOlder == <<"Config is for older lazymc version, you may need to update it">>

WarnInvalid == <<"Config version is invalid, you may need to update it">>

Warnings == {WarnUnknown, WarnOlder, WarnInvalid}

ErrLoad == <<"Failed to load config">>

ErrMissingCommand == <<"Missing required environment variable: LAZYMC_SERVER_COMMAND">>

(* info!("Config file not found at {}, using ...", path.display()) *)
InfoNotFound(path) ==
    <<"Config file not found at ">> \o path
        \o <<", using environment variables and defaults">>

(* the warning for an outcome of compare_to *)
warning_of(outcome) ==
    CASE outcome = "Ok(false)" -> <<WarnOlder>>
      [] outcome = "Err" -> <<WarnInvalid>>
      [] outcome = "Ok(true)" -> <<>>

(* the warnings of the version check in Config::load_from_file *)
version_warnings(version) ==
    IF ~IsSome(version) THEN <<WarnUnknown>>
    ELSE warning_of(compare_to_ge(Unwrap(version), CONFIG_VERSION))

(* loaded_from_file, had it left out config.path.replace(path) *)
loaded_from_file_no_path(parsed, path) ==
    IF parsed.err THEN [err |-> TRUE, config |-> None, log |-> <<>>]
    ELSE [err |-> FALSE,
          config |-> Some(parsed.v),
          log |-> version_warnings(parsed.v.config.version)]

(* the end of Config::load_from_file, from the result of toml::from_str *)
loaded_from_file(parsed, path) ==
    IF parsed.err THEN [err |-> TRUE, config |-> None, log |-> <<>>]
    ELSE [err |-> FALSE,
          config |-> Some([parsed.v EXCEPT !.path = Some(path)]),
          log |-> version_warnings(parsed.v.config.version)]

(* Config::load_from_file: [err, config, log] *)
load_from_file(path) ==
    IF ~fs.readable THEN [err |-> TRUE, config |-> None, log |-> <<>>]
    ELSE loaded_from_file(Config_deserialize(fs.doc), path)

(* Config::load_from_env: [err, config, log]; err is the exit through      *)
(* quit_error_msg                                                          *)
load_from_env ==
    IF ~IsSome(env_var(CommandKey))
    THEN [err |-> TRUE, config |-> None, log |-> <<ErrMissingCommand>>]
    ELSE [err |-> FALSE,
          config |-> Some([path |-> None,
                           public |-> Public_from_env,
                           server |-> Server_from_env(Unwrap(env_var(CommandKey))),
                           time |-> Time_from_env,
                           motd |-> Motd_from_env,
                           join |-> Join_from_env,
                           lockout |-> Lockout_from_env,
                           rcon |-> Rcon_from_env,
                           advanced |-> Advanced_from_env,
                           config |-> ConfigConfig_from_env]),
          log |-> <<>>]

(* path.canonicalize(): the canonical path of an existing entry *)
canonicalize(path) == IF fs.kind # "none" THEN Some(fs.canonical) ELSE None

(* path.is_file() *)
is_file(path) == fs.kind = "file"

(* the path load() works with *)
load_path ==
    IF IsSome(canonicalize(arg_path)) THEN Unwrap(canonicalize(arg_path)) ELSE arg_path

(* info!(...) before Config::load_from_env() *)
after_info(r) == [r EXCEPT !.log = <<InfoNotFound(load_path)>> \o r.log]

(* or_quit, had it fallen back to the environment *)
or_quit_fallback(r) == IF r.err THEN after_info(load_from_env) ELSE r

(* quit_error in load(): the failure of load_from_file ends the process *)
or_quit(r) == IF r.err THEN [r EXCEPT !.log = <<ErrLoad>>] ELSE r

(* load(): the result of the branch taken, [err, config, log] *)
load_result ==
    IF is_file(load_path)
    THEN or_quit(load_from_file(load_path))
    ELSE after_info(load_from_env)

(* the state after load() returned r, or ended the process *)
load_returns(r) ==
    /\ pc' = IF r.err THEN "quit" ELSE "loaded"
    /\ config' = r.config
    /\ log' = log \o r.log

load ==
    /\ pc = "start"
    /\ load_returns(load_result)
    /\ UNCHANGED <<env, cfg_windows, arg_path, fs, sdir>>

(* server_directory, had it not used the configuration's directory *)
Server_server_directory_no_base(c) == c.server.directory

(* Server::server_directory(config) *)
Server_server_directory(c) ==
    IF IsSome(c.path) /\ IsSome(path_parent(Unwrap(c.path)))
    THEN IF IsSome(c.server.directory)
         THEN Some(path_join(Unwrap(path_parent(Unwrap(c.path))),
                             Unwrap(c.server.directory)))
         ELSE None
    ELSE c.server.directory

server_directory ==
    /\ pc = "loaded"
    /\ sdir = None
    /\ sdir' = Some(Server_server_directory(Unwrap(config)))
    /\ UNCHANGED <<env, cfg_windows, arg_path, fs, pc, config, log>>

---------------------------------------------------------------------------
(* Inputs: environments, documents and file system entries *)

MaxLen == 3

MaxMethods == 2

EscAlphabet == {BS, "n", "r", "t", "a"}

(* every text over the alphabet of length at most n *)
Texts(n) == UNION {[1..k -> EscAlphabet] : k \in 0..n}

T_run == <<"r", "u", "n">>

T_runsh == <<"r", "u", "n", ".", "s", "h">>

T_srv == <<"s", "r", "v">>

T_opt == <<"/", "o", "p", "t">>

T_bogus == <<"b", "o", "g", "u", "s">>

TextSamples == Texts(MaxLen) \cup {T_srv, T_opt, <<" ", "a", " ">>}

P25570 == <<"2", "5", "5", "7", "0">>

AddrSamples ==
    {<<"10.0.0.5", ":">> \o P25570,
     <<"[::1]", ":">> \o P25570,
     <<"10.0.0.5", ":", "0">>,
     <<"mc.example", ":">> \o P25570,
     <<"localhost", ":">> \o P25570,
     <<"nohost.invalid", ":">> \o P25570,
     <<"10.0.0.5">>,
     <<"10.0.0.5", ":", "7", "0", "0", "0", "0">>,
     <<"10.0.0.5", ":", "+", "7">>,
     <<>>}

UintSamples ==
    {<<"0">>, <<"7">>, <<"+", "7">>, <<"0", "0", "7">>, <<"-", "1">>, <<"x">>, <<>>,
     <<" ", "7">>, <<"7", ".", "5">>,
     <<"6", "5", "5", "3", "5">>, <<"6", "5", "5", "3", "6">>,
     <<"4", "2", "9", "4", "9", "6", "7", "2", "9", "5">>,
     <<"4", "2", "9", "4", "9", "6", "7", "2", "9", "6">>,
     <<"9", "9", "9", "9", "9", "9", "9", "9", "9", "9", "9">>}

BoolWords == {T_true, T_false, T_yes, T_no, T_on, T_off}

(* every casing of a lower-case word *)
RECURSIVE Casings(_)
Casings(w) ==
    IF w = <<>> THEN {<<>>}
    ELSE LET up == CHOOSE u \in UpperLetters : char_to_lowercase(u) = w[1]
         IN  {<<c>> \o r : c \in {w[1], up}, r \in Casings(Tail(w))}

BoolSamples ==
    UNION {Casings(w) : w \in BoolWords}
        \cup {<<"1">>, <<"0">>, <<>>, <<"2">>, <<" ", "t", "r", "u", "e">>,
              <<"o", "n", " ">>, <<"t">>, <<"y">>, <<"n">>, <<"1", "0">>,
              <<"t", "r", "u", "e", "e">>}

MethodItems ==
    {T_kick, <<"H", "O", "L", "D">>, <<" ", "l", "o", "b", "b", "y", " ">>,
     T_forward, T_bogus, <<>>}

RECURSIVE join_commas(_)
join_commas(items) ==
    IF Len(items) = 1 THEN items[1]
    ELSE items[1] \o <<",">> \o join_commas(Tail(items))

MethodSamples ==
    {join_commas(l) : l \in UNION {[1..k -> MethodItems] : k \in 1..MaxMethods}}

SamplesFor(key) ==
    (CASE key \in StringKeys -> {SetTo(t) : t \in TextSamples}
       [] key \in AddrKeys -> {SetTo(t) : t \in AddrSamples}
       [] key \in U32Keys \cup U16Keys -> {SetTo(t) : t \in UintSamples}
       [] key \in BoolKeys -> {SetTo(t) : t \in BoolSamples}
       [] key \in VecKeys -> {SetTo(t) : t \in MethodSamples})
    \cup {NotUnicode}

CommandSamples ==
    {SetTo(t) : t \in Texts(MaxLen) \cup {T_run}} \cup {Unset, NotUnicode}

(* the environment with the command and one more variable *)
EnvWith(cmd, key, val) ==
    [k \in EnvKeys |-> IF k = CommandKey THEN cmd ELSE IF k = key THEN val ELSE Unset]

(* the environment with the command and every other variable set to a     *)
(* well-formed value                                                       *)
EnvAllSet(cmd) ==
    [k \in EnvKeys |->
        CASE k = CommandKey -> cmd
          [] k \in StringKeys -> SetTo(<<"a", BS, "n">>)
          [] k \in AddrKeys -> SetTo(<<"10.0.0.5", ":">> \o P25570)
          [] k \in U32Keys \cup U16Keys -> SetTo(<<"7">>)
          [] k \in BoolKeys -> SetTo(IF k = "LAZYMC_SERVER_FREEZE_PROCESS"
                                     THEN T_off ELSE T_yes)
          [] k \in VecKeys -> SetTo(T_lobby)]

BaseEnvs ==
    {EnvWith(cmd, CommandKey, cmd) : cmd \in CommandSamples}
        \cup {EnvAllSet(SetTo(T_run)), EnvAllSet(Unset)}

SingleEnvs ==
    UNION {{EnvWith(SetTo(T_run), key, val) : val \in SamplesFor(key)} :
            key \in EnvKeys \ {CommandKey}}

AllTables ==
    {"public", "server", "time", "motd", "join", "join.kick", "join.hold",
     "join.forward", "join.lobby", "lockout", "rcon", "advanced", "config"}

FStringFields ==
    {"public.version", "server.command", "motd.sleeping", "motd.starting",
     "motd.stopping", "join.kick.starting", "join.kick.stopping",
     "join.lobby.message", "join.lobby.ready_sound", "lockout.message",
     "rcon.password", "server.unknown", "extra.key"}

FAddrFields == {"public.address", "server.address", "join.forward.address"}

FU32Fields ==
    {"public.protocol", "server.start_timeout", "server.stop_timeout",
     "time.sleep_after", "time.min_online_time", "time.minimum_online_time",
     "join.hold.timeout", "join.lobby.timeout"}

FBoolFields ==
    {"server.freeze_process", "server.wake_on_start", "server.wake_on_crash",
     "server.probe_on_start", "server.forge", "server.wake_whitelist",
     "server.block_banned_ips", "server.drop_banned_ips", "server.send_proxy_v2",
     "motd.from_server", "join.forward.send_proxy_v2", "lockout.enabled",
     "rcon.enabled", "rcon.randomize_password", "rcon.send_proxy_v2",
     "advanced.rewrite_server_properties"}

FieldNames ==
    FStringFields \cup FAddrFields \cup FU32Fields \cup FBoolFields
        \cup {"server.directory", "rcon.port", "join.methods", "config.version"}

(* the fields written under a table, sub-tables included *)
FieldsUnder(t) ==
    CASE t = "public" -> {"public.address", "public.version", "public.protocol"}
      [] t = "server" ->
            {"server.directory", "server.command", "server.address",
                  "server.freeze_process", "server.wake_on_start",
                  "server.wake_on_crash", "server.probe_on_start", "server.forge",
                  "server.start_timeout", "server.stop_timeout",
                  "server.wake_whitelist", "server.block_banned_ips",
                  "server.drop_banned_ips", "server.send_proxy_v2",
                  "server.unknown"}
      [] t = "time" -> {"time.sleep_after", "time.min_online_time",
                        "time.minimum_online_time"}
      [] t = "motd" -> {"motd.sleeping", "motd.starting", "motd.stopping",
                        "motd.from_server"}
      [] t = "join.kick" -> {"join.kick.starting", "join.kick.stopping"}
      [] t = "join.hold" -> {"join.hold.timeout"}
      [] t = "join.forward" -> {"join.forward.address", "join.forward.send_proxy_v2"}
      [] t = "join.lobby" -> {"join.lobby.timeout", "join.lobby.message",
                              "join.lobby.ready_sound"}
      [] t = "join" -> {"join.methods", "join.kick.starting", "join.kick.stopping",
                        "join.hold.timeout", "join.forward.address",
                        "join.forward.send_proxy_v2", "join.lobby.timeout",
                        "join.lobby.message", "join.lobby.ready_sound"}
      [] t = "lockout" -> {"lockout.enabled", "lockout.message"}
      [] t = "rcon" -> {"rcon.enabled", "rcon.port", "rcon.password",
                        "rcon.randomize_password", "rcon.send_proxy_v2"}
      [] t = "advanced" -> {"advanced.rewrite_server_properties"}
      [] t = "config" -> {"config.version"}
      [] t = "extra" -> {"extra.key"}

TablesFor(name) == {t \in AllTables \cup {"extra"} : name \in FieldsUnder(t)}

V(major, minor, patch) == major \o <<".">> \o minor \o <<".">> \o patch

VersionSamples ==
    {V(<<"0">>, <<"2">>, <<"7">>), V(<<"0">>, <<"2">>, <<"8">>),
     V(<<"0">>, <<"2">>, <<"9">>), V(<<"0">>, <<"2">>, <<"1", "0">>),
     V(<<"0">>, <<"1", "0">>, <<"0">>), V(<<"0">>, <<"1">>, <<"9", "9">>),
     V(<<"1">>, <<"0">>, <<"0">>), V(<<"0">>, <<"2">>, <<"0", "8">>),
     <<"0", ".", "2">>, <<"0", ".", "3">>, <<"1">>, <<"0">>,
     V(<<"0">>, <<"2">>, <<"8">>) \o <<".", "0">>,
     V(<<"0">>, <<"2">>, <<"8">>) \o <<".", "1">>,
     V(<<"0">>, <<"2">>, <<"7">>) \o <<".", "9">>,
     <<"n", "o", "t", "-", "a", "-", "v", "e", "r", "s", "i", "o", "n">>,
     <<"l", "a", "t", "e", "s", "t">>}

FileTexts == {<<>>, <<"a">>, <<"a", BS, "n", "b">>, <<BS, BS>>, T_runsh}

FileInts ==
    {<<"0">>, <<"4", "5">>, <<"-", "1">>, <<"-", "0">>,
     <<"6", "5", "5", "3", "5">>, <<"6", "5", "5", "3", "6">>,
     <<"4", "2", "9", "4", "9", "6", "7", "2", "9", "5">>,
     <<"4", "2", "9", "4", "9", "6", "7", "2", "9", "6">>}

FileMethodItems == {T_kick, T_hold, T_forward, T_lobby, <<"K", "i", "c", "k">>, T_bogus}

FileValues(name) ==
    CASE name \in FStringFields ->
            {TomlString(t) : t \in FileTexts} \cup {TomlBoolean(TRUE)}
      [] name = "server.directory" ->
            {TomlString(t) : t \in {T_dot, T_srv, T_opt, <<>>}} \cup {TomlInteger(<<"1">>)}
      [] name = "config.version" ->
            {TomlString(t) : t \in VersionSamples} \cup {TomlInteger(<<"1">>)}
      [] name \in FAddrFields ->
            {TomlString(t) : t \in AddrSamples} \cup {TomlInteger(P25570)}
      [] name \in FU32Fields \cup {"rcon.port"} ->
            {TomlInteger(l) : l \in FileInts} \cup {TomlString(<<"4", "5">>)}
      [] name \in FBoolFields ->
            {TomlBoolean(b) : b \in BOOLEAN} \cup {TomlString(T_true)}
      [] name = "join.methods" ->
            {TomlArray(l) : l \in UNION {[1..k -> FileMethodItems] : k \in 0..MaxMethods}}
                \cup {TomlString(T_kick)}

Doc(tables, fields) == [syntax_ok |-> TRUE, tables |-> tables, fields |-> fields]

NoFields == [n \in {} |-> TomlBoolean(TRUE)]

MinimalFields == [n \in {"server.command"} |-> TomlString(T_runsh)]

(* the minimal document with one more key (or another command) *)
DocWith(name, val) ==
    Doc({"server"} \cup TablesFor(name),
        [n \in {"server.command", name} |->
            IF n = name THEN val ELSE TomlString(T_runsh)])

(* a document that gives every field a well-formed value *)
FullDoc ==
    Doc(AllTables,
        [n \in FieldNames \ {"time.minimum_online_time", "server.unknown", "extra.key"} |->
            CASE n \in FStringFields -> TomlString(<<"a", BS, "n", "b">>)
              [] n = "server.directory" -> TomlString(T_srv)
              [] n = "config.version" -> TomlString(V(<<"0">>, <<"2">>, <<"9">>))
              [] n \in FAddrFields -> TomlString(<<"mc.example", ":">> \o P25570)
              [] n \in FU32Fields \cup {"rcon.port"} -> TomlInteger(<<"4", "5">>)
              [] n \in FBoolFields -> TomlBoolean(n # "server.freeze_process")
              [] n = "join.methods" -> TomlArray(<<T_lobby, T_kick>>)])

Docs ==
    {Doc({"server"}, MinimalFields), Doc(AllTables, MinimalFields), FullDoc,
     [syntax_ok |-> FALSE, tables |-> {}, fields |-> NoFields],
     Doc({}, NoFields), Doc({"server"}, NoFields),
     Doc({"time"}, [n \in {"time.sleep_after"} |-> TomlInteger(<<"4", "5">>)]),
     Doc({"server", "time"},
         [n \in {"server.command", "time.min_online_time", "time.minimum_online_time"} |->
            IF n = "server.command" THEN TomlString(T_runsh) ELSE TomlInteger(<<"4", "5">>)])}
        \cup {Doc({"server", t}, MinimalFields) : t \in AllTables}
        \cup UNION {{DocWith(name, val) : val \in FileValues(name)} : name \in FieldNames}

ArgPaths ==
    {<<"lazymc.toml">>, <<"/", "lazymc.toml">>,
     <<"/", "etc", "/", "lazymc", "/", "lazymc.toml">>}

(* where a path leads: a relative path is taken from the directory /work *)
canonical_of(p) == IF is_absolute(p) THEN p ELSE <<"/", "work", "/">> \o p

NoEntry == [kind |-> "none", canonical |-> <<>>, readable |-> FALSE, doc |-> Doc({}, NoFields)]

DirEntry(p) ==
    [kind |-> "dir", canonical |-> canonical_of(p), readable |-> FALSE,
     doc |-> Doc({}, NoFields)]

FileEntry(p, readable, doc) ==
    [kind |-> "file", canonical |-> canonical_of(p), readable |-> readable, doc |-> doc]

(* no configuration file: the command alone, in every form *)
InitEnv ==
    /\ arg_path \in ArgPaths
    /\ fs \in {NoEntry, DirEntry(arg_path)}
    /\ cfg_windows \in BOOLEAN
    /\ env \in BaseEnvs

(* no configuration file: the command and one more variable *)
InitEnvSingle ==
    /\ arg_path = <<"lazymc.toml">>
    /\ fs = NoEntry
    /\ cfg_windows \in BOOLEAN
    /\ env \in SingleEnvs

(* a configuration file *)
InitFile ==
    /\ arg_path \in ArgPaths
    /\ \/ fs \in {FileEntry(arg_path, TRUE, doc) : doc \in Docs}
       \/ fs = FileEntry(arg_path, FALSE, Doc({"server"}, MinimalFields))
    /\ cfg_windows \in BOOLEAN
    /\ env \in {EnvWith(Unset, CommandKey, Unset), EnvAllSet(SetTo(T_run))}

Init ==
    /\ InitEnv \/ InitEnvSingle \/ InitFile
    /\ pc = "start"
    /\ config = None
    /\ log = <<>>
    /\ sdir = None

Next == load \/ server_directory

Spec == Init /\ [][Next]_vars

---------------------------------------------------------------------------
(* Properties *)

Loaded == pc = "loaded"

Quit == pc = "quit"

FileSourced == fs.kind = "file"

cfg == Unwrap(config)

(* C1: a returned tree comes from one source.  With a regular file at the  *)
(* path the tree is the file's (its values or the file defaults) and its   *)
(* path is that file's; otherwise the tree is the environment's and it has *)
(* no path.  The path is present exactly when the file was the source.     *)
C1_OneSource ==
    Loaded =>
        /\ IsSome(cfg.path) <=> FileSourced
        /\ FileSourced =>
            /\ cfg.path = Some(fs.canonical)
            /\ [cfg EXCEPT !.path = None] = Config_deserialize(fs.doc).v
        /\ ~FileSourced =>
            /\ cfg.path = None
            /\ cfg = Unwrap(load_from_env.config)

(* a file was loaded while every environment variable is set to a value    *)
(* the file does not give                                                  *)
C1_Witness ==
    /\ Loaded /\ FileSourced
    /\ env = EnvAllSet(SetTo(T_run))
    /\ fs.doc = Doc({"server"}, MinimalFields)
    /\ cfg.server.command = T_runsh
    /\ cfg.time.sleep_after = U32(60)

(* C2 as stated: unset or empty command ends in the fatal error, a         *)
(* non-empty one is returned in the tree                                   *)
C2_Original ==
    (pc # "start" /\ ~FileSourced) =>
        IF ~env[CommandKey].set \/ env[CommandKey].s = <<>>
        THEN Quit /\ config = None /\ log = <<InfoNotFound(load_path), ErrMissingCommand>>
        ELSE Loaded /\ cfg.server.command = env[CommandKey].s

(* C2, amended: when loading from the environment, an unset command (or    *)
(* one that is not valid Unicode) ends in the fatal error that names the   *)
(* variable and no configuration is returned; a command set to any text,   *)
(* the empty text included, is returned unchanged as the server command    *)
C2_CommandRequired ==
    (pc # "start" /\ ~FileSourced) =>
        IF ~env[CommandKey].set \/ ~env[CommandKey].unicode
        THEN Quit /\ config = None /\ log = <<InfoNotFound(load_path), ErrMissingCommand>>
        ELSE Loaded /\ cfg.server.command = env[CommandKey].s

(* the environment's empty command was loaded *)
C2_Witness ==
    /\ Loaded /\ ~FileSourced
    /\ env[CommandKey] = SetTo(<<>>)
    /\ cfg.server.command = <<>>

(* the failures of a file load that C3 names *)
ReadFailure == ~fs.readable

StructuralFailure ==
    \/ ~fs.doc.syntax_ok
    \/ "server" \notin fs.doc.tables
    \/ "server.command" \notin DOMAIN fs.doc.fields

UnresolvableAddress ==
    \E f \in FAddrFields \cap DOMAIN fs.doc.fields :
        /\ fs.doc.fields[f].t = "string"
        /\ fs.doc.fields[f].s \in
              {<<"nohost.invalid", ":">> \o P25570, <<"10.0.0.5">>,
               <<"10.0.0.5", ":", "7", "0", "0", "0", "0">>, <<>>}

(* C3: with a file at the path, a read failure, a structural parse failure *)
(* (a missing [server] command included) and an unresolvable address each *)
(* end in the fatal error: nothing is returned, and the environment is not *)
(* consulted instead                                                       *)
C3_FileFailureFatal ==
    (pc # "start" /\ FileSourced
        /\ (ReadFailure \/ StructuralFailure \/ UnresolvableAddress)) =>
        /\ Quit
        /\ config = None
        /\ log = <<ErrLoad>>
        /\ sdir = None

(* a file with an unresolvable address failed while the environment held   *)
(* a complete configuration                                                *)
C3_Witness ==
    /\ Quit /\ FileSourced
    /\ UnresolvableAddress /\ ~ReadFailure /\ ~StructuralFailure
    /\ env = EnvAllSet(SetTo(T_run))

---------------------------------------------------------------------------
(* The field of the tree each variable stands for *)

FieldOf(key) ==
    CASE key = "LAZYMC_PUBLIC_ADDRESS" -> <<"public", "address">>
      [] key = "LAZYMC_PUBLIC_VERSION" -> <<"public", "version">>
      [] key = "LAZYMC_PUBLIC_PROTOCOL" -> <<"public", "protocol">>
      [] key = "LAZYMC_SERVER_DIRECTORY" -> <<"server", "directory">>
      [] key = "LAZYMC_SERVER_COMMAND" -> <<"server", "command">>
      [] key = "LAZYMC_SERVER_ADDRESS" -> <<"server", "address">>
      [] key = "LAZYMC_SERVER_FREEZE_PROCESS" -> <<"server", "freeze_process">>
      [] key = "LAZYMC_SERVER_WAKE_ON_START" -> <<"server", "wake_on_start">>
      [] key = "LAZYMC_SERVER_WAKE_ON_CRASH" -> <<"server", "wake_on_crash">>
      [] key = "LAZYMC_SERVER_PROBE_ON_START" -> <<"server", "probe_on_start">>
      [] key = "LAZYMC_SERVER_FORGE" -> <<"server", "forge">>
      [] key = "LAZYMC_SERVER_START_TIMEOUT" -> <<"server", "start_timeout">>
      [] key = "LAZYMC_SERVER_STOP_TIMEOUT" -> <<"server", "stop_timeout">>
      [] key = "LAZYMC_SERVER_WAKE_WHITELIST" -> <<"server", "wake_whitelist">>
      [] key = "LAZYMC_SERVER_BLOCK_BANNED_IPS" -> <<"server", "block_banned_ips">>
      [] key = "LAZYMC_SERVER_DROP_BANNED_IPS" -> <<"server", "drop_banned_ips">>
      [] key = "LAZYMC_SERVER_SEND_PROXY_V2" -> <<"server", "send_proxy_v2">>
      [] key = "LAZYMC_TIME_SLEEP_AFTER" -> <<"time", "sleep_after">>
      [] key = "LAZYMC_TIME_MIN_ONLINE_TIME" -> <<"time", "min_online_time">>
      [] key = "LAZYMC_MOTD_SLEEPING" -> <<"motd", "sleeping">>
      [] key = "LAZYMC_MOTD_STARTING" -> <<"motd", "starting">>
      [] key = "LAZYMC_MOTD_STOPPING" -> <<"motd", "stopping">>
      [] key = "LAZYMC_MOTD_FROM_SERVER" -> <<"motd", "from_server">>
      [] key = "LAZYMC_JOIN_METHODS" -> <<"join", "methods">>
      [] key = "LAZYMC_JOIN_KICK_STARTING" -> <<"join", "kick", "starting">>
      [] key = "LAZYMC_JOIN_KICK_STOPPING" -> <<"join", "kick", "stopping">>
      [] key = "LAZYMC_JOIN_HOLD_TIMEOUT" -> <<"join", "hold", "timeout">>
      [] key = "LAZYMC_JOIN_FORWARD_ADDRESS" -> <<"join", "forward", "address">>
      [] key = "LAZYMC_JOIN_FORWARD_SEND_PROXY_V2" -> <<"join", "forward", "send_proxy_v2">>
      [] key = "LAZYMC_JOIN_LOBBY_TIMEOUT" -> <<"join", "lobby", "timeout">>
      [] key = "LAZYMC_JOIN_LOBBY_MESSAGE" -> <<"join", "lobby", "message">>
      [] key = "LAZYMC_JOIN_LOBBY_READY_SOUND" -> <<"join", "lobby", "ready_sound">>
      [] key = "LAZYMC_LOCKOUT_ENABLED" -> <<"lockout", "enabled">>
      [] key = "LAZYMC_LOCKOUT_MESSAGE" -> <<"lockout", "message">>
      [] key = "LAZYMC_RCON_ENABLED" -> <<"rcon", "enabled">>
      [] key = "LAZYMC_RCON_PORT" -> <<"rcon", "port">>
      [] key = "LAZYMC_RCON_PASSWORD" -> <<"rcon", "password">>
      [] key = "LAZYMC_RCON_RANDOMIZE_PASSWORD" -> <<"rcon", "randomize_password">>
      [] key = "LAZYMC_RCON_SEND_PROXY_V2" -> <<"rcon", "send_proxy_v2">>
      [] key = "LAZYMC_ADVANCED_REWRITE_SERVER_PROPERTIES" ->
            <<"advanced", "rewrite_server_properties">>
      [] key = "LAZYMC_CONFIG_VERSION" -> <<"config", "version">>

(* the field of tree c at path p *)
Get(c, p) == IF Len(p) = 2 THEN c[p[1]][p[2]] ELSE c[p[1]][p[2]][p[3]]

(* the tree of the documented defaults: what a file that gives only the    *)
(* start command yields                                                    *)
DefaultTree == Config_deserialize(Doc({"server"}, MinimalFields)).v

(* the one variable set beside the command, when there is exactly one *)
OnlySet(key) ==
    /\ key # CommandKey
    /\ env[key].set
    /\ \A k \in EnvKeys \ {CommandKey, key} : ~env[k].set

NonBooleanTexts ==
    {<<>>, <<"2">>, <<" ", "t", "r", "u", "e">>, <<"o", "n", " ">>, <<"t">>,
     <<"y">>, <<"n">>, <<"1", "0">>, <<"t", "r", "u", "e", "e">>}

MalformedU32 ==
    {<<"-", "1">>, <<"x">>, <<>>, <<" ", "7">>, <<"7", ".", "5">>,
     <<"4", "2", "9", "4", "9", "6", "7", "2", "9", "6">>,
     <<"9", "9", "9", "9", "9", "9", "9", "9", "9", "9", "9">>}

MalformedU16 ==
    MalformedU32 \cup {<<"6", "5", "5", "3", "6">>,
                       <<"4", "2", "9", "4", "9", "6", "7", "2", "9", "5">>}

UnparsableAddresses ==
    {<<"10.0.0.5">>, <<"10.0.0.5", ":", "7", "0", "0", "0", "0">>,
     <<"10.0.0.5", ":", "+", "7">>, <<"nohost.invalid", ":">> \o P25570, <<>>}

MethodNames == {T_kick, T_hold, T_forward, T_lobby}

(* a list of join methods with an item that names no strategy *)
HasUnknownMethod(text) ==
    \E i \in 1..Len(split(text, ",")) :
        to_lowercase(trim(split(text, ",")[i])) \notin MethodNames

(* the value of a variable is malformed for the type of its field *)
Malformed(key) ==
    \/ ~env[key].unicode
    \/ key \in BoolKeys /\ env[key].s \in NonBooleanTexts
    \/ key \in U32Keys /\ env[key].s \in MalformedU32
    \/ key \in U16Keys /\ env[key].s \in MalformedU16
    \/ key \in AddrKeys /\ env[key].s \in UnparsableAddresses

(* C4 as stated: one malformed variable, an unknown join method included,  *)
(* leaves the whole tree at the documented defaults                        *)
C4_Original ==
    \A key \in EnvKeys \ {CommandKey} :
        (pc # "start" /\ ~FileSourced /\ IsSome(env_var(CommandKey)) /\ OnlySet(key)
            /\ (Malformed(key) \/ (key \in VecKeys /\ HasUnknownMethod(env[key].s)))) =>
            /\ Loaded
            /\ \A k \in EnvKeys \ {CommandKey} :
                  Get(cfg, FieldOf(k)) = Get(DefaultTree, FieldOf(k))

(* C4, amended: for every environment-sourced field other than the start   *)
(* command, setting only that field's variable to a malformed value        *)
(* (non-boolean text, non-numeric, negative or out-of-range text for a     *)
(* 16/32-bit unsigned integer, an unparsable address, a value that is not  *)
(* valid Unicode) yields that field's documented default, every other      *)
(* field keeps its default and loading does not fail.  The join-method     *)
(* list is the exception: an item that names no strategy is dropped, the   *)
(* strategies named by the other items are kept in their order and the     *)
(* default [hold, kick] is not substituted, so a list of unknown names     *)
(* alone yields the empty list.                                            *)
C4_Isolation ==
    \A key \in EnvKeys \ {CommandKey} :
        (pc # "start" /\ ~FileSourced /\ IsSome(env_var(CommandKey)) /\ OnlySet(key)) =>
            /\ Malformed(key) =>
                /\ Loaded
                /\ \A k \in EnvKeys \ {CommandKey} :
                      Get(cfg, FieldOf(k)) = Get(DefaultTree, FieldOf(k))
            /\ (key \in VecKeys /\ env[key].unicode) =>
                /\ Loaded
                /\ cfg.join.methods = filter_map_parse(
                      [i \in 1..Len(split(env[key].s, ",")) |->
                          trim(split(env[key].s, ",")[i])])
                /\ env[key].s \in {T_bogus, T_bogus \o <<",">> \o T_bogus} =>
                      cfg.join.methods = <<>>
                /\ env[key].s = T_bogus \o <<",">> \o T_kick =>
                      cfg.join.methods = <<"Kick">>
                /\ \A k \in EnvKeys \ {CommandKey, key} :
                      Get(cfg, FieldOf(k)) = Get(DefaultTree, FieldOf(k))

(* a malformed boolean, alone in the environment, left a field whose      *)
(* default is true at true                                                 *)
C4_Witness ==
    /\ Loaded /\ ~FileSourced
    /\ OnlySet("LAZYMC_SERVER_FREEZE_PROCESS")
    /\ env["LAZYMC_SERVER_FREEZE_PROCESS"] = SetTo(<<"2">>)
    /\ cfg.server.freeze_process
    /\ cfg.join.methods = <<"Hold", "Kick">>

(* the address C5 expects of a host:port text: a literal host as it is, a *)
(* host name by the first address of its lookup, and the default only      *)
(* when nothing resolves                                                   *)
ClaimedAddress(text, default) ==
    IF Len(text) >= 3 /\ text[2] = ":" /\ IsSome(parse_port(SubSeq(text, 3, Len(text))))
    THEN LET port == Unwrap(parse_port(SubSeq(text, 3, Len(text))))
         IN  IF text[1] \in Ipv4Literals \cup Ipv6Literals
             THEN [ip |-> ip_of(text[1]), port |-> port]
             ELSE IF lookup_host(text[1]) # <<>>
                  THEN [ip |-> lookup_host(text[1])[1], port |-> port]
                  ELSE default
    ELSE default

(* the name an address field has in the file *)
AddrFileNameOf(key) ==
    CASE key = "LAZYMC_PUBLIC_ADDRESS" -> "public.address"
      [] key = "LAZYMC_SERVER_ADDRESS" -> "server.address"
      [] key = "LAZYMC_JOIN_FORWARD_ADDRESS" -> "join.forward.address"

(* the file side of C5 alone: a file address is its literal, or the first  *)
(* address of the lookup of its host name                                  *)
FileAddressResolved ==
    \A key \in AddrKeys :
        (Loaded /\ FileSourced /\ AddrFileNameOf(key) \in DOMAIN fs.doc.fields) =>
            Get(cfg, FieldOf(key)) =
                ClaimedAddress(fs.doc.fields[AddrFileNameOf(key)].s, None)

(* C5: an address is resolved the same way from both sources: a literal    *)
(* address with its port, a resolvable host name by the first address of   *)
(* the lookup with the port; from the environment the default only for an  *)
(* unresolvable value                                                      *)
C5_SameResolution ==
    \A key \in AddrKeys :
        /\ (Loaded /\ ~FileSourced /\ IsSome(env_var(key))) =>
              Get(cfg, FieldOf(key)) =
                  ClaimedAddress(env[key].s, Get(DefaultTree, FieldOf(key)))
        /\ (Loaded /\ FileSourced /\ AddrFileNameOf(key) \in DOMAIN fs.doc.fields) =>
              Get(cfg, FieldOf(key)) =
                  ClaimedAddress(fs.doc.fields[AddrFileNameOf(key)].s, None)

(* the scan C6 describes: from the left, each escape consumed once *)
RECURSIVE scan_decode(_)
scan_decode(s) ==
    IF s = <<>> THEN <<>>
    ELSE IF Len(s) >= 2 /\ s[1] = BS /\ s[2] \in {"n", "r", "t", BS}
         THEN <<CASE s[2] = "n" -> LF [] s[2] = "r" -> CR
                  [] s[2] = "t" -> TAB [] s[2] = BS -> BS>>
              \o scan_decode(SubSeq(s, 3, Len(s)))
         ELSE <<s[1]>> \o scan_decode(Tail(s))

OptionTextKeys ==
    {"LAZYMC_SERVER_DIRECTORY", "LAZYMC_JOIN_LOBBY_READY_SOUND", "LAZYMC_CONFIG_VERSION"}

(* the text a text field of the tree holds *)
TextOfField(key) ==
    IF key \in OptionTextKeys THEN Unwrap(Get(cfg, FieldOf(key)))
    ELSE Get(cfg, FieldOf(key))

(* C6: the decoded text of an environment value is the single scan of it:  *)
(* no character produced by one escape takes part in another               *)
C6_NoDoubleSubstitution ==
    \A key \in StringKeys :
        (Loaded /\ ~FileSourced /\ IsSome(env_var(key))) =>
            TextOfField(key) = scan_decode(env[key].s)

(* the name a text field has in the file *)
FileNameOf(key) ==
    CASE key = "LAZYMC_PUBLIC_VERSION" -> "public.version"
      [] key = "LAZYMC_SERVER_DIRECTORY" -> "server.directory"
      [] key = "LAZYMC_SERVER_COMMAND" -> "server.command"
      [] key = "LAZYMC_MOTD_SLEEPING" -> "motd.sleeping"
      [] key = "LAZYMC_MOTD_STARTING" -> "motd.starting"
      [] key = "LAZYMC_MOTD_STOPPING" -> "motd.stopping"
      [] key = "LAZYMC_JOIN_KICK_STARTING" -> "join.kick.starting"
      [] key = "LAZYMC_JOIN_KICK_STOPPING" -> "join.kick.stopping"
      [] key = "LAZYMC_JOIN_LOBBY_MESSAGE" -> "join.lobby.message"
      [] key = "LAZYMC_JOIN_LOBBY_READY_SOUND" -> "join.lobby.ready_sound"
      [] key = "LAZYMC_LOCKOUT_MESSAGE" -> "lockout.message"
      [] key = "LAZYMC_RCON_PASSWORD" -> "rcon.password"
      [] key = "LAZYMC_CONFIG_VERSION" -> "config.version"

(* C7: every text field of an environment-sourced tree, the start command  *)
(* included, is the escape-decoded value of its variable, and every text   *)
(* field of a file-sourced tree is the file's value unchanged              *)
C7_DecodedFromEnvOnly ==
    \A key \in StringKeys \cup {CommandKey} :
        /\ (Loaded /\ ~FileSourced /\ IsSome(env_var(key))) =>
              TextOfField(key) = process_escape_sequences(env[key].s)
        /\ (Loaded /\ FileSourced /\ FileNameOf(key) \in DOMAIN fs.doc.fields) =>
              TextOfField(key) = fs.doc.fields[FileNameOf(key)].s

TrueTexts == Casings(T_true) \cup Casings(T_yes) \cup Casings(T_on) \cup {<<"1">>}

FalseTexts == Casings(T_false) \cup Casings(T_no) \cup Casings(T_off) \cup {<<"0">>}

(* C8: every boolean field of an environment-sourced tree is true for any  *)
(* casing of true, 1, yes, on, false for any casing of false, 0, no, off,  *)
(* and its own default for an unset variable or any other text; loading    *)
(* does not fail                                                           *)
C8_BoolParsing ==
    \A key \in BoolKeys :
        (pc # "start" /\ ~FileSourced /\ IsSome(env_var(CommandKey))) =>
            /\ Loaded
            /\ Get(cfg, FieldOf(key)) =
                  IF env[key].set /\ env[key].unicode /\ env[key].s \in TrueTexts
                  THEN TRUE
                  ELSE IF env[key].set /\ env[key].unicode /\ env[key].s \in FalseTexts
                  THEN FALSE
                  ELSE Get(DefaultTree, FieldOf(key))

(* a mixed-case tRuE set wake_on_start, whose default is false *)
C8_Witness ==
    /\ Loaded /\ ~FileSourced
    /\ env["LAZYMC_SERVER_WAKE_ON_START"] = SetTo(<<"t", "R", "u", "E">>)
    /\ cfg.server.wake_on_start
    /\ ~cfg.server.wake_on_crash

VersionsOlder ==
    {V(<<"0">>, <<"2">>, <<"7">>), V(<<"0">>, <<"1">>, <<"9", "9">>),
     V(<<"0">>, <<"2">>, <<"7">>) \o <<".", "9">>, <<"0", ".", "2">>, <<"0">>}

VersionsCurrent ==
    {V(<<"0">>, <<"2">>, <<"8">>), V(<<"0">>, <<"2">>, <<"9">>),
     V(<<"0">>, <<"2">>, <<"1", "0">>), V(<<"0">>, <<"1", "0">>, <<"0">>),
     V(<<"1">>, <<"0">>, <<"0">>), V(<<"0">>, <<"2">>, <<"0", "8">>),
     V(<<"0">>, <<"2">>, <<"8">>) \o <<".", "0">>,
     V(<<"0">>, <<"2">>, <<"8">>) \o <<".", "1">>, <<"0", ".", "3">>, <<"1">>}

VersionsInvalid ==
    {<<"n", "o", "t", "-", "a", "-", "v", "e", "r", "s", "i", "o", "n">>,
     <<"l", "a", "t", "e", "s", "t">>}

(* the version a document declares *)
DeclaredVersion(doc) ==
    IF "config.version" \in DOMAIN doc.fields /\ doc.fields["config.version"].t = "string"
    THEN Some(doc.fields["config.version"].s) ELSE None

(* C9: a file load warns at most once about the version, never fails for   *)
(* it and returns the tree of the file whatever the version: unknown for   *)
(* no version, older for one below 0.2.8, invalid for one that is no       *)
(* version, nothing for 0.2.8 and above, compared number by number         *)
C9_VersionCheck ==
    (Loaded /\ FileSourced) =>
        LET v == DeclaredVersion(fs.doc)
        IN  /\ Len(log) <= 1
            /\ \A i \in 1..Len(log) : log[i] \in Warnings
            /\ cfg.config.version = v
            /\ [cfg EXCEPT !.path = None, !.config.version = None]
                  = [Config_deserialize(fs.doc).v EXCEPT !.config.version = None]
            /\ ~IsSome(v) => log = <<WarnUnknown>>
            /\ (IsSome(v) /\ Unwrap(v) \in VersionsOlder) => log = <<WarnOlder>>
            /\ (IsSome(v) /\ Unwrap(v) \in VersionsInvalid) => log = <<WarnInvalid>>
            /\ (IsSome(v) /\ Unwrap(v) \in VersionsCurrent) => log = <<>>
            /\ IsSome(v) => Unwrap(v) \in VersionsOlder \cup VersionsInvalid \cup VersionsCurrent

(* a file declaring 0.2.10 was loaded without a warning *)
C9_Witness ==
    /\ Loaded /\ FileSourced
    /\ DeclaredVersion(fs.doc) = Some(V(<<"0">>, <<"2">>, <<"1", "0">>))
    /\ log = <<>>
    /\ cfg.config.version = Some(V(<<"0">>, <<"2">>, <<"1", "0">>))

(* the directory a document declares, "." when it declares none *)
DeclaredDirectory(doc) ==
    IF "server.directory" \in DOMAIN doc.fields
    THEN doc.fields["server.directory"].s ELSE T_dot

(* C10: the server directory of a file-sourced tree is the directory of    *)
(* the configuration file joined with the declared directory ("." when     *)
(* none is declared); that of an environment-sourced tree is the tree's    *)
(* directory as it is ("." when LAZYMC_SERVER_DIRECTORY is unset), with no *)
(* base before it.  The tree is what load() returned, before and after.    *)
C10_ServerDirectory ==
    (Loaded /\ IsSome(sdir)) =>
        /\ config = load_result.config
        /\ FileSourced =>
              Unwrap(sdir) =
                  Some(path_join(Unwrap(path_parent(fs.canonical)),
                                 DeclaredDirectory(fs.doc)))
        /\ ~FileSourced =>
              /\ Unwrap(sdir) = cfg.server.directory
              /\ ~IsSome(env_var("LAZYMC_SERVER_DIRECTORY")) => Unwrap(sdir) = Some(T_dot)
              /\ env["LAZYMC_SERVER_DIRECTORY"] = SetTo(T_srv) => Unwrap(sdir) = Some(T_srv)
              /\ env["LAZYMC_SERVER_DIRECTORY"] = SetTo(T_opt) => Unwrap(sdir) = Some(T_opt)

(* the directory srv declared in /etc/lazymc/lazymc.toml was resolved *)
C10_Witness ==
    /\ Loaded /\ FileSourced
    /\ fs.canonical = <<"/", "etc", "/", "lazymc", "/", "lazymc.toml">>
    /\ DeclaredDirectory(fs.doc) = T_srv
    /\ sdir = Some(Some(<<"/", "etc", "/", "lazymc", "/", "s", "r", "v">>))

(* the names under which the file gives the field of a variable *)
FileNamesOf(key) ==
    CASE key \in StringKeys -> {FileNameOf(key)}
      [] key \in AddrKeys -> {AddrFileNameOf(key)}
      [] key = "LAZYMC_PUBLIC_PROTOCOL" -> {"public.protocol"}
      [] key = "LAZYMC_SERVER_FREEZE_PROCESS" -> {"server.freeze_process"}
      [] key = "LAZYMC_SERVER_WAKE_ON_START" -> {"server.wake_on_start"}
      [] key = "LAZYMC_SERVER_WAKE_ON_CRASH" -> {"server.wake_on_crash"}
      [] key = "LAZYMC_SERVER_PROBE_ON_START" -> {"server.probe_on_start"}
      [] key = "LAZYMC_SERVER_FORGE" -> {"server.forge"}
      [] key = "LAZYMC_SERVER_START_TIMEOUT" -> {"server.start_timeout"}
      [] key = "LAZYMC_SERVER_STOP_TIMEOUT" -> {"server.stop_timeout"}
      [] key = "LAZYMC_SERVER_WAKE_WHITELIST" -> {"server.wake_whitelist"}
      [] key = "LAZYMC_SERVER_BLOCK_BANNED_IPS" -> {"server.block_banned_ips"}
      [] key = "LAZYMC_SERVER_DROP_BANNED_IPS" -> {"server.drop_banned_ips"}
      [] key = "LAZYMC_SERVER_SEND_PROXY_V2" -> {"server.send_proxy_v2"}
      [] key = "LAZYMC_TIME_SLEEP_AFTER" -> {"time.sleep_after"}
      [] key = "LAZYMC_TIME_MIN_ONLINE_TIME" ->
            {"time.min_online_time", "time.minimum_online_time"}
      [] key = "LAZYMC_MOTD_FROM_SERVER" -> {"motd.from_server"}
      [] key = "LAZYMC_JOIN_METHODS" -> {"join.methods"}
      [] key = "LAZYMC_JOIN_HOLD_TIMEOUT" -> {"join.hold.timeout"}
      [] key = "LAZYMC_JOIN_FORWARD_SEND_PROXY_V2" -> {"join.forward.send_proxy_v2"}
      [] key = "LAZYMC_JOIN_LOBBY_TIMEOUT" -> {"join.lobby.timeout"}
      [] key = "LAZYMC_LOCKOUT_ENABLED" -> {"lockout.enabled"}
      [] key = "LAZYMC_RCON_ENABLED" -> {"rcon.enabled"}
      [] key = "LAZYMC_RCON_PORT" -> {"rcon.port"}
      [] key = "LAZYMC_RCON_RANDOMIZE_PASSWORD" -> {"rcon.randomize_password"}
      [] key = "LAZYMC_RCON_SEND_PROXY_V2" -> {"rcon.send_proxy_v2"}
      [] key = "LAZYMC_ADVANCED_REWRITE_SERVER_PROPERTIES" ->
            {"advanced.rewrite_server_properties"}

(* the file does not specify the field of the variable *)
Unspecified(key) == FileNamesOf(key) \cap DOMAIN fs.doc.fields = {}

(* the defaults named by C11 are those of the default tree *)
NamedDefaults ==
    /\ DefaultTree.server.address = [ip |-> "127.0.0.1", port |-> 25566]
    /\ DefaultTree.time.sleep_after = U32(60)
    /\ DefaultTree.time.min_online_time = U32(60)
    /\ DefaultTree.join.methods = <<"Hold", "Kick">>

(* the environment side of C11 alone: the field of an unset variable has   *)
(* the value of the default tree                                           *)
EnvUnsetIsDefault ==
    \A key \in EnvKeys \ {CommandKey} :
        (Loaded /\ ~FileSourced /\ ~env[key].set) =>
            Get(cfg, FieldOf(key)) = Get(DefaultTree, FieldOf(key))

(* C11: both sources agree on defaults: the field of an unset variable and *)
(* a field the file does not specify, whether its section is absent or     *)
(* present with other fields only, have the same value, that of the        *)
(* default tree (address 127.0.0.1:25566, sleep after 60, minimum online   *)
(* time 60, join methods [hold, kick])                                     *)
C11_DefaultsAgree ==
    /\ NamedDefaults
    /\ \A key \in EnvKeys \ {CommandKey} :
          /\ (Loaded /\ ~FileSourced /\ ~env[key].set) =>
                Get(cfg, FieldOf(key)) = Get(DefaultTree, FieldOf(key))
          /\ (Loaded /\ FileSourced /\ Unspecified(key)) =>
                Get(cfg, FieldOf(key)) = Get(DefaultTree, FieldOf(key))

(* the file side of C11 for every field but the minimum online time *)
FileUnspecifiedIsDefault ==
    \A key \in EnvKeys \ {CommandKey, "LAZYMC_TIME_MIN_ONLINE_TIME"} :
        (Loaded /\ FileSourced /\ Unspecified(key)) =>
            Get(cfg, FieldOf(key)) = Get(DefaultTree, FieldOf(key))

(* the strategy an element of the list names, if any: the name in any     *)
(* casing, with spaces around it                                           *)
NamedBy(item) ==
    CASE item = T_kick -> <<"Kick">>
      [] item = <<"H", "O", "L", "D">> -> <<"Hold">>
      [] item = <<" ", "l", "o", "b", "b", "y", " ">> -> <<"Lobby">>
      [] item = T_forward -> <<"Forward">>
      [] OTHER -> <<>>

(* the strategies the elements name, in their order, duplicates kept *)
RECURSIVE NamedByAll(_)
NamedByAll(items) ==
    IF items = <<>> THEN <<>> ELSE NamedBy(items[1]) \o NamedByAll(Tail(items))

ItemLists == UNION {[1..k -> MethodItems] : k \in 1..MaxMethods}

JoinKey == "LAZYMC_JOIN_METHODS"

(* C12: an environment load with the command set never fails for the join  *)
(* methods; the list holds strategies only; for a variable made of         *)
(* elements joined by commas it is the strategies the trimmed elements     *)
(* name, in their order with duplicates kept, and the empty list when no   *)
(* element names one (the empty string included), no strategy forced; an   *)
(* unset variable gives [hold, kick]; every other field is populated as    *)
(* without the variable                                                    *)
C12_JoinMethods ==
    (pc # "start" /\ ~FileSourced /\ IsSome(env_var(CommandKey))) =>
        /\ Loaded
        /\ \A i \in 1..Len(cfg.join.methods) :
              cfg.join.methods[i] \in {"Kick", "Hold", "Forward", "Lobby"}
        /\ ~IsSome(env_var(JoinKey)) => cfg.join.methods = <<"Hold", "Kick">>
        /\ env[JoinKey] = SetTo(<<>>) => cfg.join.methods = <<>>
        /\ IsSome(env_var(JoinKey)) =>
              \A l \in ItemLists :
                  env[JoinKey].s = join_commas(l) => cfg.join.methods = NamedByAll(l)
        /\ OnlySet(JoinKey) =>
              \A k \in EnvKeys \ {CommandKey, JoinKey} :
                  Get(cfg, FieldOf(k)) = Get(DefaultTree, FieldOf(k))

(* " lobby ,HOLD" was split, trimmed and read in its order *)
C12_Witness ==
    /\ Loaded /\ ~FileSourced
    /\ env[JoinKey] = SetTo(<<" ", "l", "o", "b", "b", "y", " ", ",", "H", "O", "L", "D">>)
    /\ cfg.join.methods = <<"Lobby", "Hold">>
    /\ cfg.join.hold.timeout = U32(25)

(* the empty string gave the empty list in a loaded tree *)
EmptyListReached ==
    /\ Loaded /\ ~FileSourced
    /\ env[JoinKey] = SetTo(<<>>)
    /\ cfg.join.methods = <<>>

(* a strategy named twice was kept twice *)
DuplicateReached ==
    /\ Loaded /\ ~FileSourced
    /\ env[JoinKey] = SetTo(T_kick \o <<",">> \o T_kick)
    /\ cfg.join.methods = <<"Kick", "Kick">>

====
